---------------------------- MODULE Spec2Model ----------------------------
(***************************************************************************)
(* Verification model of the ASTM noise analysis tool.                     *)
(*                                                                         *)
(*   src/convexHull.py      calculate_max_noise   (the noise metric)       *)
(*   src/data_processor.py  NoiseDataProcessor    (the modular pipeline)   *)
(*   src/ASTMnoise.py       load_and_calculate_noise_multiple (original)   *)
(*                                                                         *)
(* Numbers.  Raw sample times and intensities are integers counted in      *)
(* quarters of 0.01 (Scale units per 1.0), so that np.round(x, 2) is a     *)
(* real conversion: it maps a raw value to the nearest multiple of 4,      *)
(* ties to the even hundredth.  Noise values are exact rationals <<n, d>>  *)
(* in lowest terms; <<1, 0>> stands for the 1e13 sentinel of the metric,   *)
(* which is larger than every candidate the bounded inputs can produce.    *)
(* Floating point rounding error is not modelled.                          *)
(***************************************************************************)
EXTENDS Integers, Sequences, FiniteSets, TLC

VARIABLES
    \* NoiseDataProcessor fields (the same names are the locals of
    \* load_and_calculate_noise_multiple in ASTMnoise.py)
    file_names,
    all_main_noise_values,
    all_ref_noise_values,
    main_noise_intervals,
    ref_noise_intervals,
    raw_t_main,
    raw_i_main,
    raw_t_ref,
    raw_i_ref,
    \* the running call of process_files / of the original file loop
    files_to_process,
    max_intervals,
    file_index,
    time_offset,
    pc,
    \* the calls of process_files made so far: the list each was given and the
    \* length of log when it was entered
    calls,
    \* what the calls returned or printed
    log,
    stats,
    high_noise,
    \* the vertex at which Qhull starts the hull's vertex list
    hull_start,
    \* calculate_max_noise applied as a pure function
    points,
    slope,
    noise,
    noise_drift,
    \* calculate_subset_size applied as a pure function
    size_data,
    size_result

procVars == <<file_names, all_main_noise_values, all_ref_noise_values,
              main_noise_intervals, ref_noise_intervals,
              raw_t_main, raw_i_main, raw_t_ref, raw_i_ref>>
callVars == <<files_to_process, max_intervals, file_index, time_offset, calls>>
metricVars == <<points, slope, noise, noise_drift, size_data, size_result>>
vars == <<procVars, callVars, pc, log, stats, high_noise, hull_start, metricVars>>

-----------------------------------------------------------------------------
(* Bounds of the model *)

MaxFiles == 2
MaxN == 2
MaxHullStart == 3
MaxCoord == 2
MaxPts == 5
MaxSlope == 1
MaxK == 2
MaxThreshold == 2

-----------------------------------------------------------------------------
(* Sequences and exact rationals *)

Last(s) == s[Len(s)]

Abs(n) == IF n < 0 THEN -n ELSE n

SetMax(S) == CHOOSE x \in S : \A y \in S : y <= x
SetMin(S) == CHOOSE x \in S : \A y \in S : x <= y

RECURSIVE Gcd(_, _)
Gcd(a, b) == IF b = 0 THEN a ELSE Gcd(b, a % b)

\* n / d in lowest terms, d > 0
Rat(n, d) == LET g == Gcd(Abs(n), d) IN <<n \div g, d \div g>>

Zero == <<0, 1>>
RatLess(a, b) == a[1] * b[2] < b[1] * a[2]
RatLeq(a, b) == a[1] * b[2] <= b[1] * a[2]
RatAdd(a, b) == Rat(a[1] * b[2] + b[1] * a[2], a[2] * b[2])
RatMax2(a, b) == IF RatLess(a, b) THEN b ELSE a

RECURSIVE RatSum(_)
RatSum(s) == IF s = <<>> THEN Zero ELSE RatAdd(Head(s), RatSum(Tail(s)))

\* numpy.min / numpy.max over the values of a non-empty list
RatMaxOf(S) == CHOOSE x \in S : \A y \in S : RatLeq(y, x)
\* (mutant of RatMinOf: the largest candidate is returned instead of the smallest)
RatMinOf_TakesMax(S) == CHOOSE x \in S : \A y \in S : RatLeq(y, x)
RatMinOf(S) == CHOOSE x \in S : \A y \in S : RatLeq(x, y)

\* (mutant of PyPrefix: the list is not cut)
PyPrefix_TakesAll(s, n) == s
\* Python's s[:n]
PyPrefix(s, n) ==
    IF n >= 0 THEN SubSeq(s, 1, IF n < Len(s) THEN n ELSE Len(s))
    ELSE SubSeq(s, 1, IF Len(s) + n > 0 THEN Len(s) + n ELSE 0)

-----------------------------------------------------------------------------
(* convexHull.py: calculate_max_noise *)

Cross(p, q, r) == (q[1] - p[1]) * (r[2] - p[2]) - (q[2] - p[2]) * (r[1] - p[1])

\* r lies strictly inside the segment p q (r is known to be on the line p q)
Inside(p, r, q) ==
    (r[1] - p[1]) * (q[1] - r[1]) + (r[2] - p[2]) * (q[2] - r[2]) > 0

PointSet(pts) == {pts[i] : i \in DOMAIN pts}

\* Qhull cannot build an initial simplex: the input is flat
\* (all points on one line, which includes all points equal)
QhullFlat(pts) == \A p, q, r \in PointSet(pts) : Cross(p, q, r) = 0

\* p -> q is an edge of the hull in counterclockwise traversal
IsHullEdge(S, p, q) ==
    /\ p # q
    /\ \A r \in S \ {p, q} :
          \/ Cross(p, q, r) > 0
          \/ Cross(p, q, r) = 0 /\ Inside(p, r, q)

HullVertices(S) == {p \in S : \E q \in S : IsHullEdge(S, p, q)}

NextCCW(S, p) == CHOOSE q \in S : IsHullEdge(S, p, q)

RECURSIVE Walk(_, _, _)
Walk(S, p, k) == IF k = 0 THEN <<>> ELSE <<p>> \o Walk(S, NextCCW(S, p), k - 1)

LexLess(p, q) == p[1] < q[1] \/ (p[1] = q[1] /\ p[2] < q[2])

LexMin(V) ==
    CHOOSE p \in V : \A q \in V : p[1] < q[1] \/ (p[1] = q[1] /\ p[2] <= q[2])

\* scipy.spatial.ConvexHull(points).vertices, as points: the extreme points in
\* counterclockwise order.  Where the list starts is Qhull's business: it is
\* the start-th vertex counted from the lowest leftmost one.
Rotate(w, k) == SubSeq(w, k + 1, Len(w)) \o SubSeq(w, 1, k)
HullFrom(S, V, start) == Rotate(Walk(S, LexMin(V), Cardinality(V)), start % Cardinality(V))
ConvexHull(pts, start) == HullFrom(PointSet(pts), HullVertices(PointSet(pts)), start)

\* The 1e13 that stands in for a division by a cosine of (nearly) zero
Sentinel == <<1, 0>>

\* norm_vector * (second column of hull_points @ rotationMatrix.T) for one
\* vertex: rotationMatrix = [[cos, -sin], [sin, cos]], so the column is
\* sin * x + cos * y, with cos = dx / norm_vector and sin = dy / norm_vector
RotatedY(p, dx, dy) == dy * p[1] + dx * p[2]

\* noiseList[i]: abs((max_y - min_y) / cos_angle[i]); norm_vector cancels.
\* On integer coordinates cos_angle is 0 exactly when dx = 0, which also
\* covers the zero-length edge (cos_angle = dx * 1e13 = 0).
Spread(ys) == SetMax(ys) - SetMin(ys)
NoiseRange(hull, dx, dy) ==
    IF dx = 0 THEN Sentinel
    ELSE Rat(Spread({RotatedY(hull[k], dx, dy) : k \in DOMAIN hull}), Abs(dx))
EdgeNoise(hull, i) ==
    NoiseRange(hull, hull[i + 1][1] - hull[i][1], hull[i + 1][2] - hull[i][2])

\* np.min(noiseList) over the edges 0 .. len(K) - 2 of the hull list
MinEdgeNoise(hull) == RatMinOf({EdgeNoise(hull, i) : i \in 1..(Len(hull) - 1)})

\* The result as [raised, value]: raised is TRUE when ConvexHull raises
\* QhullError, which calculate_max_noise does not catch.
calculate_max_noise(pts, start) ==
    IF Len(pts) < 3 THEN [raised |-> FALSE, value |-> Zero]
    ELSE IF QhullFlat(pts) THEN [raised |-> TRUE, value |-> Zero]
    ELSE [raised |-> FALSE, value |-> MinEdgeNoise(ConvexHull(pts, start))]

-----------------------------------------------------------------------------
(* Units, rounding and the data files *)

Decimals == 2
Scale == 4 * (10 ^ Decimals)         \* raw units per 1.0 (second or intensity)
Hundredth == Scale \div (10 ^ Decimals)
Sec(n) == n * Scale

\* np.round(x, decimals=2): to the nearest hundredth, ties to the even one
np_round(v) ==
    LET q == v \div Hundredth
        r == v % Hundredth
    IN  Hundredth * (IF 2 * r < Hundredth THEN q
                     ELSE IF 2 * r > Hundredth THEN q + 1
                     ELSE IF q % 2 = 0 THEN q ELSE q + 1)

\* A data file: its path <<directory, base name>>, what np.loadtxt finds
\* ("data": numeric rows of equal length; "missing": no such file; "text": a
\* row that does not parse), and the rows after the two header lines.
\* A row is <<col 0 (time), col 1, col 2 (Main), col 3, col 4 (Reference)>>,
\* cut to the number of columns the file has.
Row(t, m, r) == <<t, 0, m, 0, r>>

Zig(t1, t2, t3, hi) == <<Row(t1, 0, hi), Row(t2, hi, 0), Row(t3, 0, hi)>>

FileA == [path |-> <<"run", "a.txt">>, kind |-> "data",
          rows |-> Zig(0, Sec(10), Sec(20), 4)]
\* six rows starting at 1775 s, times off the hundredths grid: the first
\* record starts on the end of the first hour, the second after it
FileB == [path |-> <<"run", "b.txt">>, kind |-> "data",
          rows |-> Zig(Sec(1775) + 1, Sec(1785) + 2, Sec(1795) + 3, 8)
                   \o Zig(Sec(1805) + 6, Sec(1815), Sec(1825), 4)]
\* four rows: one full subset and a remainder of one
FileC == [path |-> <<"run", "c.txt">>, kind |-> "data",
          rows |-> Zig(Sec(1), Sec(11), Sec(21), 12) \o <<Row(Sec(31), 4, 4)>>]
\* the Main channel is constant over the subset
FileFlat == [path |-> <<"run", "flat.txt">>, kind |-> "data",
             rows |-> <<Row(0, 4, 0), Row(Sec(10), 4, 8), Row(Sec(20), 4, 0)>>]
\* two rows: fewer than one subset
FileShort == [path |-> <<"run", "short.txt">>, kind |-> "data",
              rows |-> <<Row(0, 0, 4), Row(Sec(10), 4, 0)>>]
\* four columns only: there is no column 4
FileFourCols == [path |-> <<"run", "cols.txt">>, kind |-> "data",
                 rows |-> <<<<0, 0, 0, 0>>, <<Sec(10), 0, 4, 0>>, <<Sec(20), 0, 0, 0>>>>]
FileMissing == [path |-> <<"run", "gone.txt">>, kind |-> "missing", rows |-> <<>>]
FileText == [path |-> <<"run", "text.txt">>, kind |-> "text", rows |-> <<>>]

Catalog == {FileA, FileB, FileC, FileFlat, FileShort, FileFourCols,
            FileMissing, FileText}

FileLists == UNION {[1..n -> Catalog] : n \in 0..MaxFiles}

basename(path) == path[2]

-----------------------------------------------------------------------------
(* data_processor.py: NoiseDataProcessor *)

\* the fields of one NoiseDataProcessor, as a record
Self ==
    [file_names |-> file_names,
     all_main_noise_values |-> all_main_noise_values,
     all_ref_noise_values |-> all_ref_noise_values,
     main_noise_intervals |-> main_noise_intervals,
     ref_noise_intervals |-> ref_noise_intervals,
     raw_t_main |-> raw_t_main, raw_i_main |-> raw_i_main,
     raw_t_ref |-> raw_t_ref, raw_i_ref |-> raw_i_ref]

\* __init__
NewProcessor ==
    [file_names |-> <<>>,
     all_main_noise_values |-> <<>>, all_ref_noise_values |-> <<>>,
     main_noise_intervals |-> <<>>, ref_noise_intervals |-> <<>>,
     raw_t_main |-> <<>>, raw_i_main |-> <<>>,
     raw_t_ref |-> <<>>, raw_i_ref |-> <<>>]

\* data[:, k] (k counted from 0) of a two-dimensional array
Column(data, k) == [i \in DOMAIN data |-> data[i][k + 1]]
NumCols(data) == Len(data[1])

\* (mutant of calculate_subset_size: without the lower limit max(3, ...))
calculate_subset_size_NoMinimum(data) ==
    LET num_rows == Len(data)
        delta_val == Abs(data[2][1] - data[1][1])
    IN  IF num_rows < 2 THEN 100
        ELSE IF delta_val > 0 THEN (30 * Scale) \div delta_val
        ELSE (30 * 100) \div 15
\* delta_val > 1e-9 is delta_val > 0 here: the smallest time step of the model
\* is 0.0025 s
calculate_subset_size(data) ==
    LET num_rows == Len(data)
        delta_val == Abs(data[2][1] - data[1][1])
        floor30 == IF delta_val > 0 THEN (30 * Scale) \div delta_val
                   ELSE (30 * 100) \div 15
    IN  IF num_rows < 2 THEN 100
        ELSE IF floor30 > 3 THEN floor30 ELSE 3

\* one subset: rows i+1 .. i+subset_size of points (i counted from 0), rounded
RoundedSubset(pts, i, subset_size) ==
    [k \in 1..subset_size |-> <<np_round(pts[i + k][1]), np_round(pts[i + k][2])>>]

\* the record (start_time, end_time, noise_value, file_index, channel, filename)
\* (mutant of Interval: the first and the last time of the subset are swapped)
Interval_Swapped(subset, noise_val, idx, channel_name, names, adj) ==
    [start_time |-> Last(subset)[1] + adj,
     end_time |-> subset[1][1] + adj,
     noise_value |-> noise_val,
     file_index |-> idx,
     channel |-> channel_name,
     filename |-> names[idx + 1]]
Interval(subset, noise_val, idx, channel_name, names, adj) ==
    [start_time |-> subset[1][1] + adj,
     end_time |-> Last(subset)[1] + adj,
     noise_value |-> noise_val,
     file_index |-> idx,
     channel |-> channel_name,
     filename |-> names[idx + 1]]

\* the start indices range(0, points_len, subset_size) that pass the
\* "i + subset_size > points_len: break" test
SubsetStarts(points_len, subset_size) ==
    {i \in 0..points_len : i % subset_size = 0 /\ i + subset_size <= points_len}

\* the subsets of one channel of a file, rounded, in order
Subsets(pts, subset_size) ==
    LET starts == SubsetStarts(Len(pts), subset_size)
    IN  [j \in 1..Cardinality({i \in starts : subset_size > 2}) |->
            RoundedSubset(pts, (j - 1) * subset_size, subset_size)]

\* the results of calculate_max_noise on the subsets, in order
Scores(subsets, start) ==
    [j \in DOMAIN subsets |-> calculate_max_noise(subsets[j], start)]

\* the loop of process_subsets over subsets already scored:
\* [exc, noise_values, intervals]; exc names the exception that leaves the
\* function ("none" when it returns)
EmitIntervals(subsets, scores, channel_name, idx, adj, names) ==
    IF subsets # <<>> /\ ~scores[1].raised /\ idx >= Len(names)
    THEN [exc |-> "IndexError", noise_values |-> <<>>, intervals |-> <<>>]
    ELSE IF \E j \in DOMAIN scores : scores[j].raised
    THEN [exc |-> "QhullError", noise_values |-> <<>>, intervals |-> <<>>]
    ELSE [exc |-> "none",
          noise_values |-> [j \in DOMAIN scores |-> scores[j].value],
          intervals |-> [j \in DOMAIN scores |->
              Interval(subsets[j], scores[j].value, idx, channel_name, names, adj)]]

ScoreAndEmit(subsets, channel_name, idx, adj, names, start) ==
    EmitIntervals(subsets, Scores(subsets, start), channel_name, idx, adj, names)

process_subsets(pts, channel_name, idx, subset_size, adj, names, start) ==
    ScoreAndEmit(Subsets(pts, subset_size), channel_name, idx, adj, names, start)

\* offset_times = times + time_offset
OffsetTimes(times, offset) == [i \in DOMAIN times |-> times[i] + offset]

\* time_offset_adjustment = new_time_offset - (offset_times[-1] - times[-1])
TimeOffsetAdjustment(new_time_offset, offset_times, times) ==
    new_time_offset - (Last(offset_times) - Last(times))

\* (mutant of Caught: the final "except Exception" clause is missing)
Caught_NamedOnly(exc) == exc \in {"FileNotFoundError", "ValueError", "IndexError"}
\* the except clauses of process_single_file: FileNotFoundError, ValueError,
\* IndexError, and Exception for everything else
Caught(exc) ==
    \/ exc \in {"FileNotFoundError", "ValueError", "IndexError"}
    \/ exc \in {"QhullError"}

\* the four extend calls on the raw series; ExtendRaw(.., k) is the processor
\* after the first k of them
ExtendRaw(p, data, offset_times, k) ==
    [p EXCEPT
       !.raw_t_main = IF k >= 1 THEN @ \o offset_times ELSE @,
       !.raw_i_main = IF k >= 2 THEN @ \o Column(data, 2) ELSE @,
       !.raw_t_ref = IF k >= 3 THEN @ \o offset_times ELSE @,
       !.raw_i_ref = IF k >= 4 THEN @ \o Column(data, 4) ELSE @]

\* (mutant of ExtendResults: the Reference results are dropped)
ExtendResults_MainOnly(p, main, ref) ==
    [p EXCEPT
       !.all_main_noise_values = @ \o main.noise_values,
       !.main_noise_intervals = @ \o main.intervals]
\* the four extend calls on the accumulators
ExtendResults(p, main, ref) ==
    [p EXCEPT
       !.all_main_noise_values = @ \o main.noise_values,
       !.all_ref_noise_values = @ \o ref.noise_values,
       !.main_noise_intervals = @ \o main.intervals,
       !.ref_noise_intervals = @ \o ref.intervals]

\* what process_single_file returns: [p, time_offset, success, exc, escaped]
Failed(p, offset, exc) ==
    [p |-> p, time_offset |-> offset, success |-> FALSE, exc |-> exc,
     escaped |-> ~Caught(exc)]
Succeeded(p, new_time_offset) ==
    [p |-> p, time_offset |-> new_time_offset, success |-> TRUE, exc |-> "none",
     escaped |-> FALSE]

\* the end of the try block, from the results of the two process_subsets calls
FinishFile(p4, main, ref, offset, new_time_offset) ==
    IF main.exc # "none" THEN Failed(p4, offset, main.exc)
    ELSE IF ref.exc # "none" THEN Failed(p4, offset, ref.exc)
    ELSE Succeeded(ExtendResults(p4, main, ref), new_time_offset)

\* the try block once times and offset_times exist
ScoreFile(p0, data, times, offset_times, idx, offset, start) ==
    IF NumCols(data) < 3 THEN Failed(ExtendRaw(p0, data, offset_times, 1), offset, "IndexError")
    ELSE IF NumCols(data) < 5 THEN Failed(ExtendRaw(p0, data, offset_times, 3), offset, "IndexError")
    ELSE FinishFile(
            ExtendRaw(p0, data, offset_times, 4),
            process_subsets([i \in DOMAIN data |-> <<times[i], data[i][3]>>], "Main",
                idx, calculate_subset_size(data),
                TimeOffsetAdjustment(Last(offset_times), offset_times, times),
                p0.file_names, start),
            process_subsets([i \in DOMAIN data |-> <<times[i], data[i][5]>>], "Reference",
                idx, calculate_subset_size(data),
                TimeOffsetAdjustment(Last(offset_times), offset_times, times),
                p0.file_names, start),
            offset, Last(offset_times))

\* the try block: np.loadtxt, then the rest
LoadFile(p0, file, idx, offset, start) ==
    IF file.kind = "missing" THEN Failed(p0, offset, "FileNotFoundError")
    ELSE IF file.kind = "text" THEN Failed(p0, offset, "ValueError")
    \* fewer than two rows: loadtxt returns a one-dimensional array and
    \* data[:, 0] raises
    ELSE IF Len(file.rows) < 2 THEN Failed(p0, offset, "IndexError")
    ELSE ScoreFile(p0, file.rows, Column(file.rows, 0),
                   OffsetTimes(Column(file.rows, 0), offset), idx, offset, start)

\* file_names.append(filename) when file_index >= len(file_names)
TrackName(p, file, idx) ==
    IF idx >= Len(p.file_names)
    THEN [p EXCEPT !.file_names = Append(@, basename(file.path))]
    ELSE p

\* process_single_file(filepath, file_index, time_offset) on processor p
process_single_file(p, file, idx, offset, start) ==
    LoadFile(TrackName(p, file, idx), file, idx, offset, start)

\* (mutant of EnoughData: the loop goes on when a channel holds exactly n)
EnoughData_Strict(p, n) ==
    Len(p.all_main_noise_values) > n /\ Len(p.all_ref_noise_values) > n
\* (mutant of EnoughData: the test fires one interval early)
EnoughData_OffByOne(p, n) ==
    Len(p.all_main_noise_values) >= n - 1 /\ Len(p.all_ref_noise_values) >= n - 1
\* the early-stop test at the head of the loop of process_files
EnoughData(p, n) ==
    Len(p.all_main_noise_values) >= n /\ Len(p.all_ref_noise_values) >= n

\* np.mean and np.max of a list, NaN for the empty list
np_mean(s) == Rat(RatSum(s)[1], RatSum(s)[2] * Len(s))
np_max(s) == RatMaxOf({s[i] : i \in DOMAIN s})
\* (mutant of MeanOrNan: 0.0 for the empty list)
MeanOrNan_Zero(s) == IF s # <<>> THEN np_mean(s) ELSE Zero
MeanOrNan(s) == IF s # <<>> THEN np_mean(s) ELSE <<"nan">>
MaxOrNan(s) == IF s # <<>> THEN np_max(s) ELSE <<"nan">>

StatsOf(main_noise_truncated, ref_noise_truncated) ==
    [main_mean |-> MeanOrNan(main_noise_truncated),
     main_max |-> MaxOrNan(main_noise_truncated),
     ref_mean |-> MeanOrNan(ref_noise_truncated),
     ref_max |-> MaxOrNan(ref_noise_truncated),
     main_count |-> Len(main_noise_truncated),
     ref_count |-> Len(ref_noise_truncated)]

\* get_statistics(max_intervals) on processor p
get_statistics(p, n) ==
    StatsOf(PyPrefix(p.all_main_noise_values, n), PyPrefix(p.all_ref_noise_values, n))

\* None, as the value of noise_threshold, main_noise and ref_noise
None == <<"None">>

\* "if 0 <= start_time <= 3600": the record starts within the first hour
InFirstHour(interval) ==
    0 <= interval.start_time /\ interval.start_time <= Sec(3600)

filtered_time_intervals(all_intervals) == SelectSeq(all_intervals, InFirstHour)

\* (mutant of AtOrAbove: the comparison is turned round)
AtOrAbove_Below(interval, noise_threshold) ==
    RatLeq(interval.noise_value, noise_threshold)
\* (mutant of AtOrAbove: a record equal to the threshold is dropped)
AtOrAbove_Strict(interval, noise_threshold) ==
    RatLess(noise_threshold, interval.noise_value)
\* "interval[2] >= noise_threshold"
AtOrAbove(interval, noise_threshold) ==
    RatLeq(noise_threshold, interval.noise_value)

filtered_intervals(filtered, noise_threshold) ==
    LET Keep(interval) == AtOrAbove(interval, noise_threshold)
    IN  SelectSeq(filtered, Keep)

\* sorted(s, key=..., reverse=True) is stable: the place of s[i] in the result
\* is after every element with a larger key and after the earlier elements
\* with an equal key
SortedPos(keys, i) ==
    1 + Cardinality({j \in DOMAIN keys :
                        RatLess(keys[i], keys[j]) \/ (j < i /\ keys[j] = keys[i])})

SortedDesc(s, keys) ==
    [k \in 1..Len(s) |-> s[CHOOSE i \in 1..Len(s) : SortedPos(keys, i) = k]]

\* (mutant of sorted_intervals: the list is left in its order)
sorted_intervals_Unsorted(s) == s
\* sorted(..., key=lambda x: x[2], reverse=True)
sorted_intervals(s) == SortedDesc(s, [i \in DOMAIN s |-> s[i].noise_value])

\* the two selection modes
top_intervals(filtered, n_intervals, noise_threshold) ==
    IF noise_threshold # None
    THEN sorted_intervals(filtered_intervals(filtered, noise_threshold))
    ELSE PyPrefix(sorted_intervals(filtered), n_intervals)

\* key = (start_time, file_idx)
GroupKey(interval) == <<interval.start_time, interval.file_index>>
KeyOfGroup(g) == <<g.start_time, g.file_idx>>

\* the dictionary entry made for a key that is not yet in interval_groups
NewGroup(interval) ==
    [start_time |-> interval.start_time, end_time |-> interval.end_time,
     file_idx |-> interval.file_index, filename |-> interval.filename,
     main_noise |-> None, ref_noise |-> None, max_noise |-> Zero]

\* (mutant of GroupMax: the value is overwritten by the record's)
GroupMax_Last(max_noise, noise_val) == noise_val
\* max(interval_groups[key]['max_noise'], noise_val)
GroupMax(max_noise, noise_val) == RatMax2(max_noise, noise_val)

\* (mutant of StoreChannel: the value goes to the other channel's field)
StoreChannel_Swapped(g, interval) ==
    IF interval.channel = "Main"
    THEN [g EXCEPT !.ref_noise = interval.noise_value]
    ELSE [g EXCEPT !.main_noise = interval.noise_value]
\* the noise value is stored under the record's channel
StoreChannel(g, interval) ==
    IF interval.channel = "Main"
    THEN [g EXCEPT !.main_noise = interval.noise_value]
    ELSE [g EXCEPT !.ref_noise = interval.noise_value]

StoreInGroup(g, interval) ==
    [StoreChannel(g, interval) EXCEPT !.max_noise = GroupMax(@, interval.noise_value)]

\* one pass of the grouping loop; groups is the dictionary in insertion order
AddToGroups(groups, interval) ==
    IF \E i \in DOMAIN groups : KeyOfGroup(groups[i]) = GroupKey(interval)
    THEN [i \in DOMAIN groups |->
             IF KeyOfGroup(groups[i]) = GroupKey(interval)
             THEN StoreInGroup(groups[i], interval) ELSE groups[i]]
    ELSE Append(groups, StoreInGroup(NewGroup(interval), interval))

RECURSIVE interval_groups(_, _, _)
interval_groups(groups, top, k) ==
    IF k > Len(top) THEN groups
    ELSE interval_groups(AddToGroups(groups, top[k]), top, k + 1)

\* sorted(interval_groups.values(), key=lambda x: x['max_noise'], reverse=True)
sorted_groups(groups) == SortedDesc(groups, [i \in DOMAIN groups |-> groups[i].max_noise])

\* the records kept by the selection, before grouping
SelectedIntervals(p, n_intervals, noise_threshold) ==
    top_intervals(filtered_time_intervals(p.main_noise_intervals \o p.ref_noise_intervals),
                  n_intervals, noise_threshold)

\* get_high_noise_intervals(n_intervals, noise_threshold) on processor p
get_high_noise_intervals(p, n_intervals, noise_threshold) ==
    sorted_groups(interval_groups(<<>>, SelectedIntervals(p, n_intervals, noise_threshold), 1))

-----------------------------------------------------------------------------
(* The pipeline as a state machine: one NoiseDataProcessor, one call of     *)
(* process_files on it, one step per iteration of its loop, and             *)
(* get_statistics on the finished run.                                      *)

ProcInit ==
    /\ file_names = <<>>
    /\ all_main_noise_values = <<>>
    /\ all_ref_noise_values = <<>>
    /\ main_noise_intervals = <<>>
    /\ ref_noise_intervals = <<>>
    /\ raw_t_main = <<>>
    /\ raw_i_main = <<>>
    /\ raw_t_ref = <<>>
    /\ raw_i_ref = <<>>

CallInit ==
    /\ files_to_process = <<>>
    /\ max_intervals = 0
    /\ file_index = 0
    /\ time_offset = 0
    /\ calls = <<>>
    /\ log = <<>>
    /\ stats = <<>>
    /\ high_noise = <<>>

NoResult == [raised |-> FALSE, value |-> <<-1, 1>>]

MetricIdle ==
    /\ points = <<>>
    /\ slope = 0
    /\ noise = NoResult
    /\ noise_drift = NoResult
    /\ size_data = <<>>
    /\ size_result = 0

Init ==
    /\ ProcInit
    /\ CallInit
    /\ MetricIdle
    /\ hull_start \in 0..MaxHullStart
    /\ pc = "idle"

\* the fields of the processor after a step that leaves it as q
SetSelf(q) ==
    /\ file_names' = q.file_names
    /\ all_main_noise_values' = q.all_main_noise_values
    /\ all_ref_noise_values' = q.all_ref_noise_values
    /\ main_noise_intervals' = q.main_noise_intervals
    /\ ref_noise_intervals' = q.ref_noise_intervals
    /\ raw_t_main' = q.raw_t_main
    /\ raw_i_main' = q.raw_i_main
    /\ raw_t_ref' = q.raw_t_ref
    /\ raw_i_ref' = q.raw_i_ref

\* the lengths of the four raw series and of the four accumulators
Lens(p) ==
    [raw_t_main |-> Len(p.raw_t_main), raw_i_main |-> Len(p.raw_i_main),
     raw_t_ref |-> Len(p.raw_t_ref), raw_i_ref |-> Len(p.raw_i_ref),
     main_values |-> Len(p.all_main_noise_values),
     ref_values |-> Len(p.all_ref_noise_values),
     main_intervals |-> Len(p.main_noise_intervals),
     ref_intervals |-> Len(p.ref_noise_intervals)]

\* what one call of process_single_file printed and returned: the file's
\* index, the outcome, time_offset before and after, and the lengths of the
\* processor's lists before and after the call
LogEntry(p, r, idx, offset) ==
    [file_index |-> idx, success |-> r.success, exc |-> r.exc,
     offset_in |-> offset, offset_out |-> r.time_offset,
     before |-> Lens(p), after |-> Lens(r.p)]

\* what is kept of a call: its file list and where its entries of log begin
CallOf(fs, entries) == [files |-> fs, log_start |-> Len(entries)]

\* process_files(files_to_process, max_intervals) is entered
ProcessFilesCall ==
    /\ pc = "idle"
    /\ \E fs \in FileLists, n \in 0..MaxN :
          /\ files_to_process' = fs
          /\ max_intervals' = n
          /\ calls' = Append(calls, CallOf(fs, log))
    /\ time_offset' = 0
    /\ file_index' = 0
    /\ pc' = "loop"
    /\ UNCHANGED <<procVars, log, stats, high_noise, hull_start, metricVars>>

\* loop head, enough data from both channels: break
EarlyStop ==
    /\ pc = "loop"
    /\ file_index < Len(files_to_process)
    /\ EnoughData(Self, max_intervals)
    /\ pc' = "done"
    /\ UNCHANGED <<procVars, callVars, log, stats, high_noise, hull_start, metricVars>>

\* one iteration: process_single_file on the next file
ProcessFile ==
    /\ pc = "loop"
    /\ file_index < Len(files_to_process)
    /\ ~EnoughData(Self, max_intervals)
    /\ \E r \in {process_single_file(Self, files_to_process[file_index + 1],
                                     file_index, time_offset, hull_start)} :
          /\ SetSelf(r.p)
          /\ log' = Append(log, LogEntry(Self, r, file_index, time_offset))
          /\ IF r.escaped
             THEN pc' = "raised" /\ UNCHANGED <<file_index, time_offset>>
             ELSE /\ pc' = "loop"
                  /\ file_index' = file_index + 1
                  /\ time_offset' = r.time_offset
    /\ UNCHANGED <<files_to_process, max_intervals, calls, stats, high_noise, hull_start, metricVars>>

\* the list is exhausted
LoopEnd ==
    /\ pc = "loop"
    /\ file_index = Len(files_to_process)
    /\ pc' = "done"
    /\ UNCHANGED <<procVars, callVars, log, stats, high_noise, hull_start, metricVars>>

\* get_statistics(n) on the finished run
GetStatistics ==
    /\ pc = "done"
    /\ \E n \in 0..MaxN :
          stats' = <<[max_intervals |-> n, result |-> get_statistics(Self, n)]>>
    /\ UNCHANGED <<procVars, callVars, pc, log, high_noise, hull_start, metricVars>>

\* the thresholds and the calls of get_high_noise_intervals that are tried:
\* the top-K mode for every K, negative K included, and the threshold mode
\* with n_intervals at its default
Threshold(k) == <<2 * Hundredth * k, 1>>
Thresholds == {Threshold(k) : k \in (-1)..MaxThreshold}
Queries ==
    {[n_intervals |-> k, noise_threshold |-> None] : k \in (-1)..MaxK}
    \cup {[n_intervals |-> 0, noise_threshold |-> t] : t \in Thresholds}

\* get_high_noise_intervals(n_intervals, noise_threshold) on the finished run
GetHighNoise ==
    /\ pc = "done"
    /\ stats = <<>>
    /\ \E q \in Queries :
          high_noise' = <<[n_intervals |-> q.n_intervals,
                           noise_threshold |-> q.noise_threshold,
                           result |-> get_high_noise_intervals(Self, q.n_intervals,
                                                               q.noise_threshold)]>>
    /\ pc' = "selected"
    /\ UNCHANGED <<procVars, callVars, log, stats, hull_start, metricVars>>

Next ==
    ProcessFilesCall \/ EarlyStop \/ ProcessFile \/ LoopEnd \/ GetStatistics \/ GetHighNoise

Spec == Init /\ [][Next]_vars

-----------------------------------------------------------------------------
(* Repeated queries on a finished run: get_statistics and                  *)
(* get_high_noise_intervals are called in any order, any number of times   *)

\* get_statistics with the max_intervals of the run, as the callers of
\* process_files use it (both take the same default)
QueryStatistics ==
    /\ pc = "done"
    /\ stats' = <<[max_intervals |-> max_intervals,
                   result |-> get_statistics(Self, max_intervals)]>>
    /\ UNCHANGED <<procVars, callVars, pc, log, high_noise, hull_start, metricVars>>

\* the calls of get_high_noise_intervals in the top-K mode
TopQueries == {q \in Queries : q.noise_threshold = None}

\* (mutant of QueryHighNoise: the records of the Main channel are sorted in
\* place and the noise values with them)
QueryHighNoise_SortsInPlace ==
    /\ pc = "done"
    /\ \E q \in TopQueries :
          high_noise' = <<[n_intervals |-> q.n_intervals,
                           noise_threshold |-> q.noise_threshold,
                           result |-> get_high_noise_intervals(Self, q.n_intervals,
                                                               q.noise_threshold)]>>
    /\ main_noise_intervals' = sorted_intervals(main_noise_intervals)
    /\ all_main_noise_values' =
          [i \in DOMAIN all_main_noise_values |->
              sorted_intervals(main_noise_intervals)[i].noise_value]
    /\ UNCHANGED <<file_names, all_ref_noise_values, ref_noise_intervals,
                   raw_t_main, raw_i_main, raw_t_ref, raw_i_ref,
                   callVars, pc, log, stats, hull_start, metricVars>>

\* get_high_noise_intervals(n_intervals) on the finished run; the processor
\* can be queried again afterwards
QueryHighNoise ==
    /\ pc = "done"
    /\ \E q \in TopQueries :
          high_noise' = <<[n_intervals |-> q.n_intervals,
                           noise_threshold |-> q.noise_threshold,
                           result |-> get_high_noise_intervals(Self, q.n_intervals,
                                                               q.noise_threshold)]>>
    /\ UNCHANGED <<procVars, callVars, pc, log, stats, hull_start, metricVars>>

NextQuery ==
    ProcessFilesCall \/ EarlyStop \/ ProcessFile \/ LoopEnd \/ QueryStatistics \/ QueryHighNoise

SpecQuery == Init /\ [][NextQuery]_vars

-----------------------------------------------------------------------------
(* Several calls of process_files on one NoiseDataProcessor: the processor  *)
(* keeps its fields between the calls, the loop starts again at index 0     *)

MaxCalls == 2

\* process_files is entered again on the processor of a finished call, with
\* another list and the same max_intervals
ProcessFilesAgain ==
    /\ pc = "done"
    /\ Len(calls) < MaxCalls
    /\ \E fs \in FileLists :
          /\ files_to_process' = fs
          /\ calls' = Append(calls, CallOf(fs, log))
    /\ time_offset' = 0
    /\ file_index' = 0
    /\ pc' = "loop"
    /\ UNCHANGED <<procVars, max_intervals, log, stats, high_noise, hull_start, metricVars>>

NextAgain ==
    ProcessFilesCall \/ EarlyStop \/ ProcessFile \/ LoopEnd \/ ProcessFilesAgain

SpecAgain == Init /\ [][NextAgain]_vars

-----------------------------------------------------------------------------
(* ASTMnoise.py: the file loop of load_and_calculate_noise_multiple.  Its    *)
(* locals carry the names of the processor's fields and use the same        *)
(* variables; pc runs "idle" -> "loop" -> "done".                           *)

analysis_start_seconds == 1800
analysis_window_seconds == 3600
analysis_end_seconds == analysis_start_seconds + analysis_window_seconds
TargetIntervals == 120

\* the number of records that start inside the analysis window
InWindowCount(intervals) ==
    Cardinality({k \in DOMAIN intervals :
        /\ Sec(analysis_start_seconds) <= intervals[k].start_time
        /\ intervals[k].start_time <= Sec(analysis_end_seconds)})

\* sum(1 for start_time, ... in intervals if analysis_start_seconds <= ...)
\* inside the loop: analysis_start_seconds is a local of the function that is
\* first assigned after the loop, so evaluating the condition for the first
\* record raises NameError; over an empty list the condition is never
\* evaluated and the sum is 0.
LoopWindowCount(intervals) ==
    IF intervals = <<>> THEN [exc |-> "none", count |-> 0]
    ELSE [exc |-> "NameError", count |-> InWindowCount(intervals)]

\* except FileNotFoundError / ValueError / IndexError / Exception: continue
OrigCaught(exc) ==
    \/ exc \in {"FileNotFoundError", "ValueError", "IndexError"}
    \/ exc \in {"QhullError", "NameError"}

\* what one iteration leaves: [p, time_offset, success, exc, escaped, stop];
\* stop is the break
OrigFailed(p, offset, exc) ==
    [p |-> p, time_offset |-> offset, success |-> FALSE, exc |-> exc,
     escaped |-> ~OrigCaught(exc), stop |-> FALSE]

\* the early-stop test that ends the try block
OrigWindowTest(p5, main_window, ref_window, new_time_offset) ==
    IF main_window.exc # "none" THEN OrigFailed(p5, new_time_offset, main_window.exc)
    ELSE IF ref_window.exc # "none" THEN OrigFailed(p5, new_time_offset, ref_window.exc)
    ELSE [p |-> p5, time_offset |-> new_time_offset, success |-> TRUE,
          exc |-> "none", escaped |-> FALSE,
          stop |-> (main_window.count >= TargetIntervals
                    /\ ref_window.count >= TargetIntervals)]

OrigExtendAndTest(p5, new_time_offset) ==
    OrigWindowTest(p5, LoopWindowCount(p5.main_noise_intervals),
                   LoopWindowCount(p5.ref_noise_intervals), new_time_offset)

\* from "time_offset = offset_times[-1]" on, time_offset is already updated
OrigFinishFile(p4, main, ref, new_time_offset) ==
    IF main.exc # "none" THEN OrigFailed(p4, new_time_offset, main.exc)
    ELSE IF ref.exc # "none" THEN OrigFailed(p4, new_time_offset, ref.exc)
    ELSE OrigExtendAndTest(ExtendResults(p4, main, ref), new_time_offset)

OrigScoreFile(p0, data, times, offset_times, idx, file_start_offset, start) ==
    IF NumCols(data) < 3
    THEN OrigFailed(ExtendRaw(p0, data, offset_times, 1), file_start_offset, "IndexError")
    ELSE IF NumCols(data) < 5
    THEN OrigFailed(ExtendRaw(p0, data, offset_times, 3), file_start_offset, "IndexError")
    ELSE OrigFinishFile(
            ExtendRaw(p0, data, offset_times, 4),
            process_subsets([i \in DOMAIN data |-> <<times[i], data[i][3]>>], "Main",
                idx, calculate_subset_size(data), file_start_offset,
                p0.file_names, start),
            process_subsets([i \in DOMAIN data |-> <<times[i], data[i][5]>>], "Reference",
                idx, calculate_subset_size(data), file_start_offset,
                p0.file_names, start),
            Last(offset_times))

OrigLoadFile(p0, file, idx, offset, start) ==
    IF file.kind = "missing" THEN OrigFailed(p0, offset, "FileNotFoundError")
    ELSE IF file.kind = "text" THEN OrigFailed(p0, offset, "ValueError")
    ELSE IF Len(file.rows) < 2 THEN OrigFailed(p0, offset, "IndexError")
    ELSE OrigScoreFile(p0, file.rows, Column(file.rows, 0),
                       OffsetTimes(Column(file.rows, 0), offset), idx, offset, start)

\* one iteration of the loop on locals p
orig_loop_body(p, file, idx, offset, start) ==
    OrigLoadFile(TrackName(p, file, idx), file, idx, offset, start)

\* the file dialog and the directory listing have produced files_to_process
OrigStart ==
    /\ pc = "idle"
    /\ \E fs \in FileLists :
          /\ Len(fs) > 0
          /\ files_to_process' = fs
          /\ calls' = Append(calls, CallOf(fs, log))
    /\ time_offset' = 0
    /\ file_index' = 0
    /\ pc' = "loop"
    /\ UNCHANGED <<procVars, max_intervals, log, stats, high_noise, hull_start, metricVars>>

\* one iteration of "for file_index, filepath in enumerate(files_to_process)"
OrigFile ==
    /\ pc = "loop"
    /\ file_index < Len(files_to_process)
    /\ \E r \in {orig_loop_body(Self, files_to_process[file_index + 1],
                                file_index, time_offset, hull_start)} :
          /\ SetSelf(r.p)
          /\ log' = Append(log, LogEntry(Self, r, file_index, time_offset))
          /\ time_offset' = r.time_offset
          /\ IF r.escaped THEN pc' = "raised" /\ UNCHANGED file_index
             ELSE IF r.stop THEN pc' = "done" /\ UNCHANGED file_index
             ELSE pc' = "loop" /\ file_index' = file_index + 1
    /\ UNCHANGED <<files_to_process, max_intervals, calls, stats, high_noise, hull_start, metricVars>>

OrigEnd ==
    /\ pc = "loop"
    /\ file_index = Len(files_to_process)
    /\ pc' = "done"
    /\ UNCHANGED <<procVars, callVars, log, stats, high_noise, hull_start, metricVars>>

NextOrig == OrigStart \/ OrigFile \/ OrigEnd

SpecOrig == Init /\ [][NextOrig]_vars

\* the noise values of the records that start inside the analysis window
\* [analysis_start_seconds, analysis_end_seconds]
InAnalysisWindow(interval) ==
    /\ Sec(analysis_start_seconds) <= interval.start_time
    /\ interval.start_time <= Sec(analysis_end_seconds)
WindowValues(intervals) ==
    LET kept == SelectSeq(intervals, InAnalysisWindow)
    IN  [i \in DOMAIN kept |-> kept[i].noise_value]

\* the whole loop on locals p: every file of fs from index idx on, until the
\* break or an exception that is not caught
RECURSIVE RunOrig(_, _, _, _, _)
RunOrigNext(r, fs, idx, start) ==
    IF r.escaped \/ r.stop THEN r.p
    ELSE RunOrig(r.p, fs, idx + 1, r.time_offset, start)
RunOrig(p, fs, idx, offset, start) ==
    IF idx >= Len(fs) THEN p
    ELSE RunOrigNext(orig_loop_body(p, fs[idx + 1], idx, offset, start), fs, idx, start)

\* the statistics after the loop: the values of the records that start in
\* the analysis window, the first 120 of them
OrigStatistics(p) ==
    StatsOf(PyPrefix(WindowValues(p.main_noise_intervals), TargetIntervals),
            PyPrefix(WindowValues(p.ref_noise_intervals), TargetIntervals))

\* the high-noise groups after the loop
OrigHighNoise(p, n_intervals, noise_threshold) ==
    IF n_intervals > 0 \/ noise_threshold # None
    THEN sorted_groups(interval_groups(<<>>,
            top_intervals(SelectSeq(p.main_noise_intervals \o p.ref_noise_intervals,
                                    InAnalysisWindow),
                          n_intervals, noise_threshold), 1))
    ELSE <<>>

-----------------------------------------------------------------------------
(* Claims about the pipeline (checked under Spec unless stated otherwise)   *)

FileOf(e) == files_to_process[e.file_index + 1]
LocalTimes(e) == Column(FileOf(e).rows, 0)

\* a file whose samples reach process_subsets: numeric rows, two-dimensional,
\* with the columns 0, 2 and 4
HasSamples(f) == f.kind = "data" /\ Len(f.rows) >= 2 /\ NumCols(f.rows) >= 5

\* np.loadtxt read the file of log entry e and its columns were stored
Loaded(e) == HasSamples(FileOf(e))

\* log entries i < j of two loaded files with no loaded file between them
ConsecutiveLoaded(i, j) ==
    /\ i < j
    /\ Loaded(log[i]) /\ Loaded(log[j])
    /\ \A k \in (i + 1)..(j - 1) : ~Loaded(log[k])

\* C1 (as claimed): time_offset starts at 0; the stitched time of the first
\* sample of a loaded file B is the stitched time of the last sample of the
\* previously loaded file A plus B's first local time; after a loaded file
\* time_offset is the stitched time of that file's last sample.
C1_Stitching ==
    /\ (pc = "loop" /\ log = <<>>) => time_offset = 0
    /\ \A j \in DOMAIN log :
          Loaded(log[j]) =>
             /\ log[j].offset_out = raw_t_main[log[j].after.raw_t_main]
             /\ \A i \in DOMAIN log :
                   ConsecutiveLoaded(i, j) =>
                      raw_t_main[log[j].before.raw_t_main + 1] =
                         raw_t_main[log[i].after.raw_t_main] + LocalTimes(log[j])[1]

\* the j-th record of a channel that the file of log entry e produced
RecordOf(intervals, first, j) == intervals[first + j]

\* the times the claim gives the j-th record of entry e
ClaimedTimes(e, rec, j) ==
    LET t == LocalTimes(e)
        sz == calculate_subset_size(FileOf(e).rows)
    IN  /\ rec.start_time = np_round(t[(j - 1) * sz + 1]) + e.offset_in
        /\ rec.end_time = np_round(t[j * sz]) + e.offset_in

\* C2 (as claimed): every record of a file has start_time and end_time equal
\* to the rounded local time of the first and last sample of its subset plus
\* the time_offset in effect when the file began.
C2_IntervalTimes ==
    \A i \in DOMAIN log :
        LET e == log[i] IN
        e.success =>
           /\ \A j \in 1..(e.after.main_intervals - e.before.main_intervals) :
                 ClaimedTimes(e, RecordOf(main_noise_intervals, e.before.main_intervals, j), j)
           /\ \A j \in 1..(e.after.ref_intervals - e.before.ref_intervals) :
                 ClaimedTimes(e, RecordOf(ref_noise_intervals, e.before.ref_intervals, j), j)

\* local times are non-negative and strictly increasing within each file
TimesIncreasing(fs) ==
    \A k \in DOMAIN fs :
        fs[k].kind = "data" =>
           /\ \A i \in DOMAIN fs[k].rows : fs[k].rows[i][1] >= 0
           /\ \A i \in 1..(Len(fs[k].rows) - 1) : fs[k].rows[i][1] < fs[k].rows[i + 1][1]

StrictlyOrdered(intervals) ==
    \A k \in 1..(Len(intervals) - 1) :
        /\ intervals[k].start_time < intervals[k + 1].start_time
        /\ intervals[k].end_time < intervals[k + 1].start_time

\* C3 (as claimed): after process_files, for files with non-negative strictly
\* increasing local times, the records of each channel are strictly
\* increasing by start_time across the run and no record overlaps the next.
C3_RecordsOrdered ==
    (pc = "done" /\ TimesIncreasing(files_to_process)) =>
        (StrictlyOrdered(main_noise_intervals) /\ StrictlyOrdered(ref_noise_intervals))

\* the j-th record of a channel covers the local rows (j-1)*s+1 .. j*s
Covers(rec, rows, col, j, sz, start) ==
    LET pts == [i \in DOMAIN rows |-> <<rows[i][1], rows[i][col]>>]
        subset == RoundedSubset(pts, (j - 1) * sz, sz)
    IN  /\ rec.end_time - rec.start_time = Last(subset)[1] - subset[1][1]
        /\ rec.noise_value = calculate_max_noise(subset, start).value

\* C4 (as claimed): a file with n samples and subset size s yields exactly
\* floor(n / s) records per channel, the i-th covering the local samples
\* i*s .. (i+1)*s - 1, the remainder dropped.
C4_FullSubsetsOnly ==
    \A i \in DOMAIN log :
        LET e == log[i]
            rows == FileOf(e).rows
            sz == calculate_subset_size(rows)
        IN  HasSamples(FileOf(e)) =>
               /\ e.after.main_intervals - e.before.main_intervals = Len(rows) \div sz
               /\ e.after.ref_intervals - e.before.ref_intervals = Len(rows) \div sz
               /\ \A j \in 1..(e.after.main_intervals - e.before.main_intervals) :
                     Covers(RecordOf(main_noise_intervals, e.before.main_intervals, j),
                            rows, 3, j, sz, hull_start)
               /\ \A j \in 1..(e.after.ref_intervals - e.before.ref_intervals) :
                     Covers(RecordOf(ref_noise_intervals, e.before.ref_intervals, j),
                            rows, 5, j, sz, hull_start)

\* C8: a failing file is not fatal: process_files does not raise, the file
\* after a failing one is processed next, files are left out only by the
\* early stop, and a failing file adds no record and no noise value to
\* either channel.
C8_FailureNonFatal ==
    /\ pc # "raised"
    /\ \A i \in DOMAIN log :
          ~log[i].success =>
             /\ log[i].after.main_intervals = log[i].before.main_intervals
             /\ log[i].after.ref_intervals = log[i].before.ref_intervals
             /\ log[i].after.main_values = log[i].before.main_values
             /\ log[i].after.ref_values = log[i].before.ref_values
             /\ log[i].file_index + 1 < Len(files_to_process) =>
                   \/ i < Len(log) /\ log[i + 1].file_index = log[i].file_index + 1
                   \/ /\ i = Len(log) /\ pc = "loop"
                      /\ file_index = log[i].file_index + 1
                      /\ ~EnoughData(Self, max_intervals)
    /\ pc = "done" =>
          \/ Len(log) = Len(files_to_process)
          \/ EnoughData(Self, max_intervals)
    /\ \A k \in DOMAIN main_noise_intervals :
          \E i \in DOMAIN log :
             log[i].file_index = main_noise_intervals[k].file_index /\ log[i].success
    /\ \A k \in DOMAIN ref_noise_intervals :
          \E i \in DOMAIN log :
             log[i].file_index = ref_noise_intervals[k].file_index /\ log[i].success

\* C8 witness: the run is over, a file failed after part of it had been
\* stored, and the file after it was loaded
C8_Witness ==
    /\ pc = "done"
    /\ \E i \in DOMAIN log :
          /\ ~log[i].success
          /\ log[i].exc = "QhullError"
          /\ i < Len(log)
          /\ log[i + 1].success
          /\ log[i + 1].after.main_intervals > log[i + 1].before.main_intervals

\* process_files with the early-stop test left out: every file of the list
\* goes through process_single_file
RECURSIVE RunAll(_, _, _, _, _)
RunAllNext(r, fs, idx, start) == RunAll(r.p, fs, idx + 1, r.time_offset, start)
RunAll(p, fs, idx, offset, start) ==
    IF idx >= Len(fs) THEN p
    ELSE RunAllNext(process_single_file(p, fs[idx + 1], idx, offset, start), fs, idx, start)

\* C10: get_statistics(N) after process_files(files, N) returns what it
\* returns after all the files were processed without the early stop.
C10_EarlyStopKeepsStatistics ==
    (pc = "done" /\ stats # <<>> /\ stats[1].max_intervals = max_intervals) =>
        stats[1].result =
            get_statistics(RunAll(NewProcessor, files_to_process, 0, 0, hull_start),
                           max_intervals)

\* C10 witness: the early stop left out a file that has records, and the
\* statistics were taken
C10_Witness ==
    /\ pc = "done"
    /\ stats # <<>>
    /\ stats[1].max_intervals = max_intervals
    /\ max_intervals > 0
    /\ file_index < Len(files_to_process)
    /\ Len(RunAll(NewProcessor, files_to_process, 0, 0, hull_start).all_main_noise_values)
          > Len(all_main_noise_values)

\* C11 (as claimed): get_high_noise_intervals after process_files returns the
\* group list it returns after every file of the list was processed without
\* the early stop.
C11_EarlyStopKeepsSelection ==
    high_noise # <<>> =>
        high_noise[1].result =
            get_high_noise_intervals(
                RunAll(NewProcessor, files_to_process, 0, 0, hull_start),
                high_noise[1].n_intervals, high_noise[1].noise_threshold)

\* C12 (as claimed): get_statistics computes mean, max and count of a channel
\* only from the records whose start_time lies in the analysis window
\* [1800 s, 5400 s].
C12_StatisticsInWindow ==
    stats # <<>> =>
        stats[1].result =
            StatsOf(PyPrefix(WindowValues(main_noise_intervals), stats[1].max_intervals),
                    PyPrefix(WindowValues(ref_noise_intervals), stats[1].max_intervals))

\* the first min(n, available) values of a list, n >= 0
FirstValues(values, n) == SubSeq(values, 1, IF n < Len(values) THEN n ELSE Len(values))

\* mean, max and count are those of the list used
IsMeanOf(q, used) == q[1] * (RatSum(used)[2] * Len(used)) = RatSum(used)[1] * q[2]
IsMaxOf(q, used) ==
    /\ \E i \in DOMAIN used : used[i] = q
    /\ \A i \in DOMAIN used : RatLeq(used[i], q)
DescribesChannel(mean, max, count, used) ==
    /\ count = Len(used)
    /\ used # <<>> => (IsMeanOf(mean, used) /\ IsMaxOf(max, used))

WithMainValues(values) == [NewProcessor EXCEPT !.all_main_noise_values = values]

\* C13: get_statistics(N), N >= 0, uses for each channel exactly the first
\* min(N, available) noise values in the order they were emitted: count is
\* their number, mean their arithmetic mean, max their maximum; 5.0 and 9.0
\* with N = 2 give mean 7.0, max 9.0, count 2, also when a third value follows.
C13_FirstNValues ==
    /\ stats # <<>> =>
          /\ DescribesChannel(stats[1].result.main_mean, stats[1].result.main_max,
                              stats[1].result.main_count,
                              FirstValues(all_main_noise_values, stats[1].max_intervals))
          /\ DescribesChannel(stats[1].result.ref_mean, stats[1].result.ref_max,
                              stats[1].result.ref_count,
                              FirstValues(all_ref_noise_values, stats[1].max_intervals))
    /\ \A tail \in {<<>>, <<<<100, 1>>>>} :
          LET r == get_statistics(WithMainValues(<<<<5, 1>>, <<9, 1>>>> \o tail), 2)
          IN  r.main_mean = <<7, 1>> /\ r.main_max = <<9, 1>> /\ r.main_count = 2

\* C13 witness: statistics were taken with 0 < N below the number of values
\* of a channel, and a value beyond the N-th is larger than the reported max
C13_Witness ==
    /\ stats # <<>>
    /\ stats[1].max_intervals > 0
    /\ stats[1].max_intervals < Len(all_main_noise_values)
    /\ \E i \in DOMAIN all_main_noise_values :
          RatLess(stats[1].result.main_max, all_main_noise_values[i])

\* NaN, the no-data value of get_statistics
NaN == <<"nan">>

\* the records of both channels, as get_high_noise_intervals combines them
AllIntervals == main_noise_intervals \o ref_noise_intervals
RecordSet(intervals) == {intervals[i] : i \in DOMAIN intervals}

\* the records that start within the first hour, the window of
\* get_high_noise_intervals
Candidates == {r \in RecordSet(AllIntervals) : InFirstHour(r)}

\* the candidates at or above threshold t
Passing(t) == {r \in Candidates : RatLeq(t, r.noise_value)}

\* C14: a channel without noise values (no file loaded, every file failed or
\* too short, or max_intervals = 0) gets mean NaN, max NaN and count 0 from
\* get_statistics; when no record passes the filters get_high_noise_intervals
\* returns the empty list.
C14_NoDataSentinel ==
    /\ stats # <<>> =>
          /\ FirstValues(all_main_noise_values, stats[1].max_intervals) = <<>> =>
                /\ stats[1].result.main_mean = NaN
                /\ stats[1].result.main_max = NaN
                /\ stats[1].result.main_count = 0
          /\ FirstValues(all_ref_noise_values, stats[1].max_intervals) = <<>> =>
                /\ stats[1].result.ref_mean = NaN
                /\ stats[1].result.ref_max = NaN
                /\ stats[1].result.ref_count = 0
    /\ (high_noise # <<>> /\ high_noise[1].noise_threshold = None /\ Candidates = {}) =>
          high_noise[1].result = <<>>
    /\ (high_noise # <<>> /\ high_noise[1].noise_threshold # None
           /\ Passing(high_noise[1].noise_threshold) = {}) =>
          high_noise[1].result = <<>>

\* C14 witness: there are records within the first hour, none of them reaches
\* the threshold, and the selection was taken
C14_Witness ==
    /\ high_noise # <<>>
    /\ high_noise[1].noise_threshold # None
    /\ Candidates # {}
    /\ Passing(high_noise[1].noise_threshold) = {}
    /\ high_noise[1].result = <<>>

\* what a group list holds: <<key, channel, noise value>> for every channel
\* value that is not None
Entries(groups) ==
    {<<KeyOfGroup(groups[i]), "Main", groups[i].main_noise>> :
        i \in {j \in DOMAIN groups : groups[j].main_noise # None}}
    \cup {<<KeyOfGroup(groups[i]), "Reference", groups[i].ref_noise>> :
        i \in {j \in DOMAIN groups : groups[j].ref_noise # None}}
EntryOf(r) == <<GroupKey(r), r.channel, r.noise_value>>

\* C15: with a threshold, get_high_noise_intervals keeps every record of the
\* window with noise_value >= noise_threshold and none below it, uncapped and
\* whatever n_intervals is; every group has max_noise >= noise_threshold (for
\* a threshold >= 0) and every such record appears in a group.
C15_ThresholdMode ==
    (high_noise # <<>> /\ high_noise[1].noise_threshold # None) =>
        LET t == high_noise[1].noise_threshold
            result == high_noise[1].result
        IN  /\ Entries(result) = {EntryOf(r) : r \in Passing(t)}
            /\ RatLeq(Zero, t) => \A i \in DOMAIN result : RatLeq(t, result[i].max_noise)
            /\ \A k \in (-1)..MaxK : get_high_noise_intervals(Self, k, t) = result

\* C15 witness: the threshold splits the records of the window, more records
\* pass than n_intervals, and the selection was taken with that threshold
C15_Witness ==
    /\ high_noise # <<>>
    /\ high_noise[1].noise_threshold # None
    /\ RatLess(Zero, high_noise[1].noise_threshold)
    /\ Passing(high_noise[1].noise_threshold) # Candidates
    /\ Cardinality(Passing(high_noise[1].noise_threshold)) > high_noise[1].n_intervals
    /\ \E r \in Passing(high_noise[1].noise_threshold) :
          r.noise_value = high_noise[1].noise_threshold
    /\ Len(high_noise[1].result) >= 2

\* C16: over the same records, for thresholds t1 <= t2 the call with t2
\* returns at most as many groups as the call with t1.
C16_ThresholdMonotonic ==
    (high_noise # <<>> /\ high_noise[1].noise_threshold # None) =>
        \A t \in Thresholds :
            LET other == Len(get_high_noise_intervals(Self, high_noise[1].n_intervals, t))
            IN  /\ RatLeq(high_noise[1].noise_threshold, t) =>
                      other <= Len(high_noise[1].result)
                /\ RatLeq(t, high_noise[1].noise_threshold) =>
                      Len(high_noise[1].result) <= other

\* C16 witness: a selection with groups was taken with a threshold, and a
\* higher threshold gives fewer groups, but not none
C16_Witness ==
    /\ high_noise # <<>>
    /\ high_noise[1].noise_threshold # None
    /\ \E t \in Thresholds :
          /\ RatLess(high_noise[1].noise_threshold, t)
          /\ Len(get_high_noise_intervals(Self, 0, t)) < Len(high_noise[1].result)
          /\ Len(get_high_noise_intervals(Self, 0, t)) > 0

\* C17: without a threshold, n_intervals = 0 gives the empty list; K > 0
\* keeps exactly the min(K, candidates) records of the window with the
\* highest noise_value; K at least the number of candidates keeps them all.
C17_TopK ==
    (high_noise # <<>> /\ high_noise[1].noise_threshold = None
        /\ high_noise[1].n_intervals >= 0) =>
        LET K == high_noise[1].n_intervals
            kept == Entries(high_noise[1].result)
            all == {EntryOf(r) : r \in Candidates}
        IN  /\ K = 0 => high_noise[1].result = <<>>
            /\ kept \subseteq all
            /\ Cardinality(kept) = IF K < Cardinality(all) THEN K ELSE Cardinality(all)
            /\ \A e \in kept : \A o \in all \ kept : RatLeq(o[3], e[3])
            /\ K >= Cardinality(all) => kept = all

\* C17 witness: 0 < K below the number of candidates, and the records kept
\* are not the first K of the record lists
C17_Witness ==
    /\ high_noise # <<>>
    /\ high_noise[1].noise_threshold = None
    /\ high_noise[1].n_intervals > 0
    /\ high_noise[1].n_intervals < Cardinality(Candidates)
    /\ InFirstHour(AllIntervals[1])
    /\ EntryOf(AllIntervals[1]) \notin Entries(high_noise[1].result)

\* C18 (as claimed): without a threshold every K <= 0, negative K included,
\* selects nothing: the result is the empty list.
C18_NonPositiveK ==
    (high_noise # <<>> /\ high_noise[1].noise_threshold = None
        /\ high_noise[1].n_intervals <= 0) =>
        high_noise[1].result = <<>>

\* the records the call selected
Selected == SelectedIntervals(Self, high_noise[1].n_intervals, high_noise[1].noise_threshold)

\* the value a group holds for a channel is the noise_value of the selected
\* record of that channel with the group's key, None exactly when there is none
ChannelValue(g, value, channel_name, sel) ==
    /\ value = None <=>
          ~\E r \in sel : GroupKey(r) = KeyOfGroup(g) /\ r.channel = channel_name
    /\ \A r \in sel :
          (GroupKey(r) = KeyOfGroup(g) /\ r.channel = channel_name) =>
              value = r.noise_value

\* C19: the selected records are partitioned by (start_time, file_index):
\* every selected record belongs to exactly one group, no two groups share a
\* key, every group has a selected record, and main_noise (ref_noise) is the
\* value of the selected Main (Reference) record with the key, None exactly
\* when no such record was selected.
C19_Grouping ==
    high_noise # <<>> =>
        LET result == high_noise[1].result
            sel == RecordSet(Selected)
        IN  /\ \A r \in sel :
                  Cardinality({i \in DOMAIN result : KeyOfGroup(result[i]) = GroupKey(r)}) = 1
            /\ \A i, j \in DOMAIN result :
                  KeyOfGroup(result[i]) = KeyOfGroup(result[j]) => i = j
            /\ \A i \in DOMAIN result :
                  /\ \E r \in sel : GroupKey(r) = KeyOfGroup(result[i])
                  /\ ChannelValue(result[i], result[i].main_noise, "Main", sel)
                  /\ ChannelValue(result[i], result[i].ref_noise, "Reference", sel)

\* C19 witness: the result holds a group with both channels and a group with
\* one channel only
C19_Witness ==
    /\ high_noise # <<>>
    /\ \E i, j \in DOMAIN high_noise[1].result :
          /\ high_noise[1].result[i].main_noise # None
          /\ high_noise[1].result[i].ref_noise # None
          /\ high_noise[1].result[i].main_noise # high_noise[1].result[i].ref_noise
          /\ (high_noise[1].result[j].main_noise = None
                \/ high_noise[1].result[j].ref_noise = None)

\* the channel values a group holds
Present(g) == {g.main_noise, g.ref_noise} \ {None}

\* C20: the returned list is ordered by non-increasing max_noise, and each
\* group's max_noise is the maximum of the channel values present in it.
C20_GroupsOrdered ==
    high_noise # <<>> =>
        LET result == high_noise[1].result
        IN  /\ \A i \in 1..(Len(result) - 1) :
                  RatLeq(result[i + 1].max_noise, result[i].max_noise)
            /\ \A i \in DOMAIN result :
                  /\ result[i].max_noise \in Present(result[i])
                  /\ \A v \in Present(result[i]) : RatLeq(v, result[i].max_noise)

\* C20 witness: two groups with different max_noise, the first with two
\* different channel values
C20_Witness ==
    /\ high_noise # <<>>
    /\ Len(high_noise[1].result) >= 2
    /\ RatLess(high_noise[1].result[2].max_noise, high_noise[1].result[1].max_noise)
    /\ Cardinality(Present(high_noise[1].result[1])) = 2
    /\ high_noise[1].result[1].max_noise = high_noise[1].result[1].main_noise

\* the records get_statistics(n) reads: the first n of each channel
UsedByStatistics(n) ==
    RecordSet(PyPrefix(main_noise_intervals, n)) \cup RecordSet(PyPrefix(ref_noise_intervals, n))

NonDecreasing(times) == \A i, j \in DOMAIN times : i <= j => times[i] <= times[j]

\* C22: every interval record of a file whose local times are non-decreasing
\* has end_time >= start_time.
C22_EndNotBeforeStart ==
    \A i \in DOMAIN AllIntervals :
        NonDecreasing(LocalTimes(log[AllIntervals[i].file_index + 1])) =>
            AllIntervals[i].start_time <= AllIntervals[i].end_time

\* C22 witness: a file with a remainder gave a record that ends after it
\* starts, and a later file gave another one
C22_Witness ==
    /\ Len(main_noise_intervals) >= 2
    /\ main_noise_intervals[1].start_time < main_noise_intervals[1].end_time
    /\ main_noise_intervals[2].file_index = 1
    /\ main_noise_intervals[2].start_time < main_noise_intervals[2].end_time
    /\ Len(LocalTimes(log[1])) > 3

\* both channels hold at least n noise values
BothHold(main_count, ref_count, n) == main_count >= n /\ ref_count >= n

\* the number of full subsets of the file of log entry e
FullSubsets(e) == Len(FileOf(e).rows) \div calculate_subset_size(FileOf(e).rows)

\* C24: the early stop is decided at file boundaries only. The files that were
\* loaded are the first files of the list, in order; none of them was loaded
\* when both channels already held max_intervals values; a file that was
\* processed gave all its full subsets for both channels, also beyond
\* max_intervals; and when the loop has ended, either every file was loaded or
\* both channels hold max_intervals values.
C24_StopAtFileBoundary ==
    /\ \A i \in DOMAIN log :
          /\ log[i].file_index = i - 1
          /\ i <= Len(files_to_process)
          /\ ~BothHold(log[i].before.main_values, log[i].before.ref_values, max_intervals)
          /\ log[i].success =>
                /\ log[i].after.main_values = log[i].before.main_values + FullSubsets(log[i])
                /\ log[i].after.ref_values = log[i].before.ref_values + FullSubsets(log[i])
    /\ pc \in {"done", "selected"} =>
          \/ Len(log) = Len(files_to_process)
          \/ BothHold(Len(all_main_noise_values), Len(all_ref_noise_values), max_intervals)

\* C24 witness: a file took both channels from below max_intervals to above
\* it, and the next file was not loaded
C24_Witness ==
    /\ pc = "done"
    /\ Len(log) = 1
    /\ Len(files_to_process) = 2
    /\ log[1].success
    /\ log[1].before.main_values < max_intervals
    /\ log[1].after.main_values > max_intervals
    /\ log[1].after.ref_values > max_intervals

RecordFields(intervals) ==
    [i \in DOMAIN intervals |->
        <<intervals[i].start_time, intervals[i].end_time, intervals[i].noise_value,
          intervals[i].file_index, intervals[i].channel>>]

SameRecords(o) ==
    /\ RecordFields(main_noise_intervals) = RecordFields(o.main_noise_intervals)
    /\ RecordFields(ref_noise_intervals) = RecordFields(o.ref_noise_intervals)

SameStatistics(mine, theirs) ==
    /\ mine.main_mean = theirs.main_mean /\ mine.main_max = theirs.main_max
    /\ mine.ref_mean = theirs.ref_mean /\ mine.ref_max = theirs.ref_max

SameGroups(o) ==
    \A q \in Queries :
        get_high_noise_intervals(Self, q.n_intervals, q.noise_threshold)
            = OrigHighNoise(o, q.n_intervals, q.noise_threshold)

\* C26 (as claimed): NoiseDataProcessor is a refactoring of the original
\* loop: for the same file list, when process_files has gone through the
\* whole list, the interval records (start_time, end_time, noise_value,
\* file_index, channel), the mean and max of each channel and the high-noise
\* groups for every selector call are those of the original script.
C26_SameAsOriginal ==
    (pc = "done" /\ Len(files_to_process) > 0 /\ Len(log) = Len(files_to_process)) =>
        /\ SameRecords(RunOrig(NewProcessor, files_to_process, 0, 0, hull_start))
        /\ SameStatistics(get_statistics(Self, TargetIntervals),
              OrigStatistics(RunOrig(NewProcessor, files_to_process, 0, 0, hull_start)))
        /\ SameGroups(RunOrig(NewProcessor, files_to_process, 0, 0, hull_start))

\* C27: the four accumulators stay aligned after every call of
\* process_single_file, failing calls included: the two value lists and the
\* two record lists have the same length, the i-th value of a channel is the
\* noise_value of its i-th record, and the i-th Main and Reference records
\* have the same start_time, end_time and file_index.
C27_AccumulatorsAligned ==
    /\ Len(all_main_noise_values) = Len(main_noise_intervals)
    /\ Len(all_ref_noise_values) = Len(ref_noise_intervals)
    /\ Len(main_noise_intervals) = Len(ref_noise_intervals)
    /\ \A i \in DOMAIN main_noise_intervals :
          /\ all_main_noise_values[i] = main_noise_intervals[i].noise_value
          /\ all_ref_noise_values[i] = ref_noise_intervals[i].noise_value
          /\ main_noise_intervals[i].start_time = ref_noise_intervals[i].start_time
          /\ main_noise_intervals[i].end_time = ref_noise_intervals[i].end_time
          /\ main_noise_intervals[i].file_index = ref_noise_intervals[i].file_index
          /\ main_noise_intervals[i].channel = "Main"
          /\ ref_noise_intervals[i].channel = "Reference"

\* C27 witness: a call that failed after the file was read, then a call that
\* added two records to each channel
C27_Witness ==
    /\ Len(log) = 2
    /\ ~log[1].success
    /\ log[1].after.raw_t_main > log[1].before.raw_t_main
    /\ log[2].success
    /\ Len(main_noise_intervals) = 2
    /\ Len(ref_noise_intervals) = 2

\* C28 (as claimed): after every call of process_single_file, also one that
\* failed part-way, raw_t_main, raw_i_main, raw_t_ref and raw_i_ref have the
\* same length.
C28_RawSeriesAligned ==
    /\ Len(raw_t_main) = Len(raw_i_main)
    /\ Len(raw_t_main) = Len(raw_t_ref)
    /\ Len(raw_t_main) = Len(raw_i_ref)

\* every file of the call has non-negative, strictly increasing local times
IncreasingFromZero(times) ==
    /\ \A i \in DOMAIN times : times[i] >= 0
    /\ \A i, j \in DOMAIN times : i < j => times[i] < times[j]
PlainTimes(f) == f.kind = "data" => IncreasingFromZero(Column(f.rows, 0))

\* C29 (as claimed): at every file boundary of process_files the time_offset
\* handed to the next file is the last stitched time stored in raw_t_main
\* (0 when it is empty), also after files that failed; so for files with
\* non-negative increasing local times the stitched raw times never decrease.
C29_OffsetIsLastStitchedTime ==
    /\ pc = "loop" =>
          time_offset = (IF raw_t_main = <<>> THEN 0 ELSE Last(raw_t_main))
    /\ (\A k \in DOMAIN files_to_process : PlainTimes(files_to_process[k])) =>
          \A i, j \in DOMAIN raw_t_main : i <= j => raw_t_main[i] <= raw_t_main[j]

\* the call of process_files that made log entry k, and the file it was on
CallOfEntry(k) ==
    calls[CHOOSE c \in DOMAIN calls :
            /\ calls[c].log_start < k
            /\ \A c2 \in DOMAIN calls : calls[c2].log_start < k => c2 <= c]
FileOfEntry(k) == CallOfEntry(k).files[log[k].file_index + 1]

\* the log entry of the process_single_file call that added the i-th record
\* of each channel
EntryOfRecord(i) ==
    CHOOSE k \in DOMAIN log :
        log[k].before.main_intervals < i /\ i <= log[k].after.main_intervals

\* C30 (as claimed): every interval record's filename is the basename of the
\* file whose samples produced it and its file_index is the position of that
\* file in the list given to process_files, after any sequence of calls of
\* process_files on the same processor.
C30_RecordNamesItsFile ==
    \A i \in DOMAIN main_noise_intervals :
        /\ main_noise_intervals[i].filename = basename(FileOfEntry(EntryOfRecord(i)).path)
        /\ ref_noise_intervals[i].filename = basename(FileOfEntry(EntryOfRecord(i)).path)
        /\ main_noise_intervals[i].file_index = log[EntryOfRecord(i)].file_index
        /\ ref_noise_intervals[i].file_index = log[EntryOfRecord(i)].file_index

\* (SpecOrig) C9 (as claimed): once a file has been processed, if both
\* channels have at least 120 records that start in the analysis window the
\* loop stops; and a file that was processed without a read or parse failure
\* is not reported as an error.
C9_OrigEarlyStop ==
    /\ (pc = "loop" /\ log # <<>>) =>
          ~(/\ InWindowCount(main_noise_intervals) >= TargetIntervals
            /\ InWindowCount(ref_noise_intervals) >= TargetIntervals)
    /\ \A i \in DOMAIN log :
          ~log[i].success =>
             log[i].exc \in {"FileNotFoundError", "ValueError", "IndexError", "QhullError"}

-----------------------------------------------------------------------------
(* calculate_max_noise as a pure function: the input array is built row by  *)
(* row, then scored together with its copy under a linear drift v + a * t.  *)
(* The hull depends on the set of rows only (their order can only move the  *)
(* vertex Qhull starts at, which hull_start covers), so the rows are        *)
(* entered as distinct points in increasing (t, v) order.                   *)

Grid == (0..MaxCoord) \X (0..MaxCoord)

Drift(pts, a) == [i \in DOMAIN pts |-> <<pts[i][1], pts[i][2] + a * pts[i][1]>>]

InitMetric ==
    /\ ProcInit
    /\ CallInit
    /\ MetricIdle
    /\ hull_start = 0
    /\ pc = "input"

AddPoint ==
    /\ pc = "input"
    /\ Len(points) < MaxPts
    /\ \E p \in Grid :
          /\ IF points = <<>> THEN TRUE ELSE LexLess(Last(points), p)
          /\ points' = Append(points, p)
    /\ UNCHANGED <<procVars, callVars, pc, log, stats, high_noise, hull_start,
                   slope, noise, noise_drift, size_data, size_result>>

Score ==
    /\ pc = "input"
    /\ \E a \in 1..MaxSlope, h \in 0..MaxHullStart :
          /\ slope' = a
          /\ hull_start' = h
          /\ noise' = calculate_max_noise(points, h)
          /\ noise_drift' = calculate_max_noise(Drift(points, a), h)
    /\ pc' = "scored"
    /\ UNCHANGED <<procVars, callVars, log, stats, high_noise, points, size_data, size_result>>

NextMetric == AddPoint \/ Score

SpecMetric == InitMetric /\ [][NextMetric]_vars

-----------------------------------------------------------------------------
(* Claims about calculate_max_noise (checked under SpecMetric) *)

\* C5 (as claimed): for three or more points that are all collinear,
\* calculate_max_noise returns exactly 0.0 and does not raise.
C5_CollinearReturnsZero ==
    (pc = "scored" /\ Len(points) >= 3 /\ QhullFlat(points))
        => (~noise.raised /\ noise.value = Zero)

\* C6 (as claimed): a linear drift does not change the noise value: for more
\* than two points, the value of {(t, v + a*t)} equals the value of {(t, v)}.
C6_DriftInsensitive ==
    (pc = "scored" /\ Len(points) > 2 /\ ~noise.raised)
        => (~noise_drift.raised /\ noise_drift.value = noise.value)

\* The input is the four corners of an axis-aligned square of side L plus one
\* point strictly inside it
SquarePlusInterior(S, L) ==
    \E x0, y0 \in 0..MaxCoord :
        LET corners == {<<x0, y0>>, <<x0 + L, y0>>, <<x0, y0 + L>>, <<x0 + L, y0 + L>>}
        IN  /\ corners \subseteq S
            /\ Cardinality(S) = 5
            /\ \A p \in S \ corners :
                  /\ x0 < p[1] /\ p[1] < x0 + L
                  /\ y0 < p[2] /\ p[2] < y0 + L

\* C7: for the four corners of an axis-aligned square of side L plus one
\* interior point, calculate_max_noise returns L, whichever hull edge is the
\* omitted wrap-around edge (every start vertex of the hull list).
C7_SquareSide ==
    \A L \in 1..(MaxCoord + 1) :
        (pc = "scored" /\ SquarePlusInterior(PointSet(points), L))
            => (~noise.raised /\ noise.value = <<L, 1>>)

\* C7 witness: a square with an interior point was scored with the hull list
\* starting at the vertex that makes a horizontal edge the wrap-around edge
C7_Witness ==
    /\ pc = "scored"
    /\ \E L \in 1..MaxCoord : SquarePlusInterior(PointSet(points), L)
    /\ LET hull == ConvexHull(points, hull_start)
       IN  hull[1][2] = Last(hull)[2]
    /\ noise.value = <<2, 1>>

-----------------------------------------------------------------------------
(* calculate_subset_size as a pure function: the rows of a file are entered *)
(* one by one, then the subset size is computed                             *)

MaxRows == 3

\* the local times tried: 0 s, 0.0025 s, 0.15 s, 7 s, 10 s and 41 s
TimeGrid == {0, 1, 15 * Hundredth, Sec(7), Sec(10), Sec(41)}

InitSize ==
    /\ ProcInit
    /\ CallInit
    /\ MetricIdle
    /\ hull_start = 0
    /\ pc = "rows"

AddRow ==
    /\ pc = "rows"
    /\ Len(size_data) < MaxRows
    /\ \E t \in TimeGrid : size_data' = Append(size_data, Row(t, 0, 0))
    /\ UNCHANGED <<procVars, callVars, pc, log, stats, high_noise, hull_start,
                   points, slope, noise, noise_drift, size_result>>

SubsetSize ==
    /\ pc = "rows"
    /\ size_result' = calculate_subset_size(size_data)
    /\ pc' = "sized"
    /\ UNCHANGED <<procVars, callVars, log, stats, high_noise, hull_start,
                   points, slope, noise, noise_drift, size_data>>

NextSize == AddRow \/ SubsetSize

SpecSize == InitSize /\ [][NextSize]_vars

-----------------------------------------------------------------------------
(* Claims about calculate_subset_size (checked under SpecSize) *)

\* k is floor(num / den), den > 0
IsFloor(k, num, den) == k * den <= num /\ num < (k + 1) * den

\* k is max(3, floor(num / den))
IsFloorAtLeast3(k, num, den) ==
    \/ k = 3 /\ num < 4 * den
    \/ k > 3 /\ IsFloor(k, num, den)

\* the Main points of the rows, as process_single_file hands them to
\* process_subsets
PointsOf(rows) == [i \in DOMAIN rows |-> <<rows[i][1], rows[i][3]>>]

=============================================================================
